---- MODULE Spec2Model ----
(***************************************************************************)
(* Task orchestration of browser-auto: TaskHandler.CreateTask dispatches   *)
(* Orchestrator.ExecuteTask on its own goroutine; ExecuteTask drives one   *)
(* task through connect, authentication, planning, the step loop with one  *)
(* refinement per failed step, document generation and completion, while   *)
(* TaskHandler.CancelTask may change the stored status at any time.        *)
(*                                                                         *)
(* The task record is one Go object shared by pointer between the handler, *)
(* the MemoryTaskStore map and the orchestrator, so its fields are plain   *)
(* variables here.  ExecuteTask is split at its external calls (browser    *)
(* driver, language model), which is where other goroutines interleave.    *)
(***************************************************************************)
EXTENDS Integers, Sequences, FiniteSets, TLC

\* ---------------------------------------------------------------- bounds
MaxSteps == 4
MaxStepsConc == 2
MaxTasks == 2
MaxElapsed == 1
MaxTime == 9
MaxProse == 2

\* ------------------------------------------------------------- constants
TaskID == "t1"
NoErr == ""
Nil == "nil"
Snap == "snapshot"
NoRes == [success |-> FALSE, error |-> "<none>"]
NoStep == [order |-> 0, action |-> "<none>", target |-> "", waitFor |-> "", screenshot |-> FALSE]
NoResult == [steps |-> <<>>, screenshots |-> <<>>, documents |-> <<>>, set |-> FALSE]

\* domain.TaskStatus
TaskStatusPending == "pending"
TaskStatusRunning == "running"
TaskStatusCompleted == "completed"
TaskStatusFailed == "failed"
TaskStatusCancelled == "cancelled"

\* domain.AuthType values a request may carry ("nil" is a request without auth)
AuthTypes == {"nil", "none", "form"}

\* domain.Session as the orchestrator reads it: its cookies.  The cookies are
\* whatever the driver's GetCookies returned (or the configured ones), so a
\* session may have none; a token session never has any.
NoSession == [cookies |-> <<>>, set |-> FALSE]
Sessions == {[cookies |-> <<>>, set |-> TRUE], [cookies |-> <<"c">>, set |-> TRUE]}

\* output.formats of the request (convertOutputConfig; default is markdown)
FormatInputs == {<<"markdown">>, <<"html", "pdf", "markdown">>}

\* The action steps a model reply is drawn from: a driver action that asks
\* for a screenshot, and a wait without a selector.
StepShapes ==
    { [action |-> "click", target |-> "a", waitFor |-> "", screenshot |-> TRUE],
      [action |-> "wait", target |-> "", waitFor |-> "", screenshot |-> FALSE] }

WithOrder(shape, n) ==
    [order |-> n, action |-> shape.action, target |-> shape.target,
     waitFor |-> shape.waitFor, screenshot |-> shape.screenshot]

\* Plans a reply can encode: up to n steps, numbered in reply order.
Plans(n) ==
    UNION { { [i \in 1..k |-> WithOrder(f[i], i)] : f \in [1..k -> StepShapes] } : k \in 0..n }

\* Steps a refinement reply can encode: the model chooses every field, the
\* order number included.
RefinedSteps(orig) ==
    { [order |-> orig.order, action |-> "click", target |-> "b", waitFor |-> "", screenshot |-> TRUE],
      [order |-> 0, action |-> "wait", target |-> "", waitFor |-> "b", screenshot |-> TRUE] }

VARIABLES
    store,          \* MemoryTaskStore.tasks: ids present in the map
    persisted,      \* what the last successful Create/Update call was handed
    status,         \* task.Status
    errorMessage,   \* task.ErrorMessage
    result,         \* task.Result (+ CompletedAt), NoResult while unset
    auth,           \* task.Auth type
    formats,        \* task.Output.Formats
    pc,             \* position of the ExecuteTask goroutine
    retErr,         \* ExecuteTask's return value once pc = "returned"
    drv,            \* PlaywrightController: which of pw/browser/page are live
    connectCalls,   \* Connect calls made
    closeCalls,     \* Close calls made
    snapshot,       \* local snapshot: "none" before the first, Nil or Snap
    plan,           \* plan.Steps
    idx,            \* 1-based index of the loop iteration
    err,            \* local err of the first executeStep of this iteration
    refined,        \* local refined step
    stepResults,    \* local stepResults
    screenshots,    \* local screenshots
    hist,           \* per begun step: what the collaborators were asked and returned
    cancelRequested,\* CancelTask has been served for the task
    ctxCancelled,   \* the context handed to ExecuteTask is cancelled
    session,        \* local session of the authentication block (lines 82-92)
    chatCalls,      \* LLMClient.Chat calls made for the task so far
    updateCalls,    \* taskStore.Update calls ExecuteTask has made
    extAfterCancel, \* browser/LLM calls made with a cancelled context (capped)
    ctl,            \* the one PlaywrightController of the server: who made pw/browser/page
    res,            \* the driver resources each Connect call created
    exec,           \* position of each task's ExecuteTask goroutine on the shared driver
    used,           \* which task operated on the resources of which Connect call
    tasks,          \* MemoryTaskStore.tasks as its own callers see it, per task id
    call,           \* a function under study and the arguments it is called with
    ret,            \* what that call returned
    trace,          \* the collaborator calls it made, in order
    manual          \* authenticateManually's wait: the clock and the channels it selects on

vars == <<store, persisted, status, errorMessage, result, auth, formats, pc, retErr,
          drv, connectCalls, closeCalls, snapshot, plan, idx, err, refined,
          stepResults, screenshots, hist, cancelRequested, ctxCancelled, extAfterCancel,
          session, chatCalls, updateCalls>>

taskVars == <<status, errorMessage, result, persisted, updateCalls>>
cfgVars == <<store, auth, formats>>
loopVars == <<plan, idx, err, refined, stepResults, screenshots, hist, chatCalls>>
envVars == <<cancelRequested, ctxCancelled>>
sharedVars == <<ctl, res, exec, used, tasks>>
callVars == <<call, ret, trace, manual>>
auxVars == <<sharedVars, callVars>>
allVars == <<vars, auxVars>>

Released == [pw |-> FALSE, browser |-> FALSE, page |-> FALSE]
Live == [pw |-> TRUE, browser |-> TRUE, page |-> TRUE]

\* The one task of the orchestration model, before its request arrives.
TaskInit ==
    /\ store = {}
    /\ persisted = [status |-> "none", errorMessage |-> NoErr, hasResult |-> FALSE]
    /\ status = "none"
    /\ errorMessage = NoErr
    /\ result = NoResult
    /\ auth = "nil"
    /\ formats = <<>>
    /\ pc = "idle"
    /\ retErr = NoErr
    /\ drv = Released
    /\ connectCalls = 0
    /\ closeCalls = 0
    /\ snapshot = "none"
    /\ plan = <<>>
    /\ idx = 0
    /\ err = NoErr
    /\ refined = NoStep
    /\ stepResults = <<>>
    /\ screenshots = <<>>
    /\ hist = <<>>
    /\ cancelRequested = FALSE
    /\ ctxCancelled = FALSE
    /\ extAfterCancel = 0
    /\ session = NoSession
    /\ chatCalls = 0
    /\ updateCalls = 0

\* server main: the tasks that may run at once on the server's one Orchestrator.
Tasks == 1..MaxTasks

\* NewPlaywrightController: pw, browser and page are nil (0: made by no Connect).
NoDriver == [pw |-> 0, browser |-> 0, page |-> 0]

\* No entry for an id in MemoryTaskStore.tasks (NewMemoryTaskStore: empty map).
Absent == [state |-> "absent", status |-> "none"]

SharedIdle ==
    /\ tasks = [i \in Tasks |-> Absent]
    /\ ctl = NoDriver
    /\ res = <<>>
    /\ exec = [t \in Tasks |-> "idle"]
    /\ used = {}

NoCall == [fn |-> "none"]
NoRet == [set |-> FALSE]

\* Instant 0 of a manual wait: no tick delivered yet, ctx not cancelled.
ManualIdle == [now |-> 0, tick |-> FALSE, cancelled |-> FALSE]

CallIdle ==
    /\ call = NoCall
    /\ ret = NoRet
    /\ trace = <<>>
    /\ manual = ManualIdle

Init ==
    /\ TaskInit
    /\ SharedIdle
    /\ CallIdle

\* ------------------------------------------------------------ task store
\* MemoryTaskStore.Update: ErrNotFound unless the id is in the map.
UpdateOk == TaskID \in store

\* What a successful Update call is handed (the record as it is at the call).
Persist(st, msg, hasRes) ==
    IF UpdateOk THEN [status |-> st, errorMessage |-> msg, hasResult |-> hasRes]
    ELSE persisted

\* ------------------------------------------------------ browser driver
\* PlaywrightController.Connect: the resources live after each way it can end.
ConnectOutcomes == {"run_err", "launch_err", "page_err", "ok"}

AfterConnect(o) ==
    CASE o = "run_err"    -> drv
      [] o = "launch_err" -> [drv EXCEPT !.pw = TRUE]
      [] o = "page_err"   -> [drv EXCEPT !.pw = TRUE, !.browser = TRUE]
      [] OTHER            -> Live

\* PlaywrightController.Close, run by ExecuteTask's defer.
DeferredClose ==
    /\ drv' = Released
    /\ closeCalls' = closeCalls + 1

\* A browser or language-model call made under the task's context.
ExtCall ==
    extAfterCancel' = IF ctxCancelled /\ extAfterCancel < 2
                      THEN extAfterCancel + 1 ELSE extAfterCancel

\* ------------------------------------------------------------ executeStep
\* The switch of executeStep with a case for scroll as well.
DriverActionsWithScroll == {"navigate", "click", "fill", "hover", "select", "scroll"}

DriverActions == {"navigate", "click", "fill", "hover", "select"}

\* DriverOp with the wait case testing step.Target instead of step.WaitFor.
DriverOpWaitOnTarget(step) ==
    IF step.action \in DriverActions THEN step.action
    ELSE IF step.action = "wait" /\ step.target # "" THEN "wait_for_selector"
    ELSE "none"

\* The driver operation executeStep dispatches to ("none": no case matches,
\* or a wait without selector, which only sleeps).
DriverOp(step) ==
    IF step.action \in DriverActions THEN step.action
    ELSE IF step.action = "wait" /\ step.waitFor # "" THEN "wait_for_selector"
    ELSE "none"

\* err.Error() of a failed driver operation: it names what was acted on.
DriverError(step) ==
    "driver: " \o (IF step.action = "wait" THEN step.waitFor ELSE step.target)

\* executeStep recording a failed operation in the result only.
executeStepSwallowsError(step, drvOk, shotOk) ==
    IF DriverOp(step) # "none" /\ ~drvOk
    THEN [result |-> [success |-> FALSE, error |-> DriverError(step)],
          screenshot |-> <<>>,
          err |-> NoErr]
    ELSE [result |-> [success |-> TRUE, error |-> NoErr],
          screenshot |-> IF step.screenshot /\ shotOk
                         THEN <<[stepOrder |-> step.order]>> ELSE <<>>,
          err |-> NoErr]

\* executeStep treating a TakeScreenshot error as the step's failure.
executeStepShotRequired(step, drvOk, shotOk) ==
    IF (DriverOp(step) # "none" /\ ~drvOk) \/ (step.screenshot /\ ~shotOk)
    THEN [result |-> [success |-> FALSE, error |-> DriverError(step)],
          screenshot |-> <<>>,
          err |-> DriverError(step)]
    ELSE [result |-> [success |-> TRUE, error |-> NoErr],
          screenshot |-> IF step.screenshot
                         THEN <<[stepOrder |-> step.order]>> ELSE <<>>,
          err |-> NoErr]

\* executeStep(step) for a driver that answers drvOk to the operation and
\* shotOk to TakeScreenshot: the StepResult, the screenshot (a sequence of
\* zero or one record) and the error.
executeStep(step, drvOk, shotOk) ==
    IF DriverOp(step) # "none" /\ ~drvOk
    THEN [result |-> [success |-> FALSE, error |-> DriverError(step)],
          screenshot |-> <<>>,
          err |-> DriverError(step)]
    ELSE [result |-> [success |-> TRUE, error |-> NoErr],
          screenshot |-> IF step.screenshot /\ shotOk
                         THEN <<[stepOrder |-> step.order]>> ELSE <<>>,
          err |-> NoErr]

\* The calls executeStep(step) makes, in order, for a driver that answers
\* drvOk to the operation: the driver operation with its argument or the 2 s
\* sleep of a wait without selector, then (unless the operation failed) the
\* 500 ms sleep and, when the step asks for one, TakeScreenshot.
executeStepCalls(step, drvOk) ==
    LET op == DriverOp(step)
        first == IF op = "wait_for_selector" THEN <<[op |-> op, arg |-> step.waitFor]>>
                 ELSE IF op \in {"fill", "select"}
                      THEN <<[op |-> op, arg |-> step.target, value |-> step.value]>>
                 ELSE IF op # "none" THEN <<[op |-> op, arg |-> step.target]>>
                 ELSE IF step.action = "wait" THEN <<[op |-> "sleep", arg |-> "2s"]>>
                 ELSE <<>>
    IN  IF op # "none" /\ ~drvOk THEN first
        ELSE first \o <<[op |-> "sleep", arg |-> "500ms"]>>
                   \o (IF step.screenshot THEN <<[op |-> "take_screenshot", arg |-> "png"]>>
                       ELSE <<>>)

\* ---------------------------------------------------------------- failTask
\* failTask without the assignment to task.ErrorMessage.
failTaskNoMessage(e) ==
    /\ status' = TaskStatusFailed
    /\ errorMessage' = errorMessage
    /\ persisted' = Persist(TaskStatusFailed, errorMessage, result.set)
    /\ updateCalls' = updateCalls + 1
    /\ UNCHANGED result

\* failTask without its Update call.
failTaskNoUpdate(e) ==
    /\ status' = TaskStatusFailed
    /\ errorMessage' = e
    /\ UNCHANGED <<persisted, updateCalls, result>>

\* failTask: status failed, message recorded, Update called (its error dropped).
failTask(e) ==
    /\ status' = TaskStatusFailed
    /\ errorMessage' = e
    /\ persisted' = Persist(TaskStatusFailed, e, result.set)
    /\ updateCalls' = updateCalls + 1
    /\ UNCHANGED result

\* return o.failTask(...) once the deferred Close is registered.
Failing(e) ==
    /\ failTask(e)
    /\ pc' = "returned"
    /\ retErr' = e
    /\ DeferredClose
    /\ session' = NoSession
    /\ UNCHANGED <<auxVars, cfgVars, connectCalls, snapshot, plan, idx, err, refined,
                   stepResults, screenshots, hist, envVars>>

Abort(e) ==
    /\ Failing(e)
    /\ UNCHANGED chatCalls

\* An external call that succeeded: move on, nothing else changes (the
\* session is local to the authentication block, which ends at line 98).
Proceed(next) ==
    /\ pc' = next
    /\ session' = IF next = "take_snapshot" THEN NoSession ELSE session
    /\ UNCHANGED <<auxVars, taskVars, cfgVars, retErr, drv, connectCalls, closeCalls,
                   snapshot, loopVars, envVars>>

\* ------------------------------------------------------------- CreateTask
\* TaskHandler.CreateTask: store the pending task and dispatch ExecuteTask.
CreateTask ==
    /\ pc = "idle"
    /\ \E a \in AuthTypes, f \in FormatInputs :
        /\ auth' = a
        /\ formats' = f
    /\ status' = TaskStatusPending
    /\ store' = store \cup {TaskID}
    /\ persisted' = [status |-> TaskStatusPending, errorMessage |-> NoErr, hasResult |-> FALSE]
    /\ updateCalls' = updateCalls
    /\ pc' = "start"
    /\ UNCHANGED <<auxVars, session,
                   errorMessage, result, retErr, drv, connectCalls, closeCalls, snapshot,
                   loopVars, envVars, extAfterCancel>>

\* ------------------------------------------------------------ ExecuteTask
\* Lines 47-64: running, Update, NewClient (never an error), NewAIPlanner.
Start ==
    /\ pc = "start"
    /\ status' = TaskStatusRunning
    /\ persisted' = Persist(TaskStatusRunning, errorMessage, result.set)
    /\ updateCalls' = updateCalls + 1
    /\ IF UpdateOk
       THEN pc' = "connect" /\ retErr' = retErr
       ELSE pc' = "returned" /\ retErr' = "update task status"
    /\ UNCHANGED <<auxVars, session,
                   errorMessage, result, cfgVars, drv, connectCalls, closeCalls, snapshot,
                   loopVars, envVars, extAfterCancel>>

\* Lines 66-71: Connect; on error failTask and return, the defer not yet registered.
Connect ==
    /\ pc = "connect"
    /\ connectCalls' = connectCalls + 1
    /\ ExtCall
    /\ \E o \in ConnectOutcomes :
        /\ drv' = AfterConnect(o)
        /\ IF o = "ok"
           THEN /\ pc' = "navigate"
                /\ UNCHANGED <<taskVars, retErr>>
           ELSE /\ failTask("connect browser")
                /\ pc' = "returned"
                /\ retErr' = "connect browser"
    /\ UNCHANGED <<auxVars, session,
                   cfgVars, closeCalls, snapshot, loopVars, envVars>>

NeedsAuth == auth # "nil" /\ auth # "none"

\* Line 77: Navigate before authentication.
NavigateForAuth ==
    /\ pc = "navigate"
    /\ NeedsAuth
    /\ ExtCall
    /\ \/ Proceed("authenticate")
       \/ Abort("navigate for auth")

\* Line 88 with every session taken for one with cookies.
AfterAuthenticateAlways(s) == "set_cookies"

\* Line 88: SetCookies is called only for a session that has cookies.
AfterAuthenticate(s) ==
    IF Len(s.cookies) > 0 THEN "set_cookies" ELSE "navigate_after_auth"

\* Line 82: Authenticate returns a session or an error.
Authenticate ==
    /\ pc = "authenticate"
    /\ ExtCall
    /\ \/ /\ \E s \in Sessions :
                /\ session' = s
                /\ pc' = AfterAuthenticate(s)
          /\ UNCHANGED <<auxVars, taskVars, cfgVars, retErr, drv, connectCalls, closeCalls,
                         snapshot, loopVars, envVars>>
       \/ Abort("authenticate")

\* Line 89: SetCookies.
SetCookies ==
    /\ pc = "set_cookies"
    /\ ExtCall
    /\ \/ Proceed("navigate_after_auth")
       \/ Abort("set cookies")

\* Line 95: Navigate again to apply the session.
NavigateAfterAuth ==
    /\ pc = "navigate_after_auth"
    /\ ExtCall
    /\ \/ Proceed("take_snapshot")
       \/ Abort("navigate after auth")

\* Line 101: Navigate without authentication.
Navigate ==
    /\ pc = "navigate"
    /\ ~NeedsAuth
    /\ ExtCall
    /\ \/ Proceed("take_snapshot")
       \/ Abort("navigate")

\* Lines 112-115: the first snapshot; an error is fatal.
TakeSnapshot ==
    /\ pc = "take_snapshot"
    /\ ExtCall
    /\ \/ /\ snapshot' = Snap
          /\ pc' = "parse_task"
          /\ UNCHANGED <<auxVars, session,
                   taskVars, cfgVars, retErr, drv, connectCalls, closeCalls,
                         loopVars, envVars>>
       \/ Abort("take snapshot")

\* -------------------------------------------------------------- step loop
\* Where the range loop goes with iteration i of plan p next.
LoopPc(i, p) == IF i <= Len(p) THEN "exec" ELSE "docs"

\* Lines 118-129: ParseTask on a reply drawn from the plans of up to n steps;
\* a Chat error and a reply without a parsable plan are both fatal.  Chat
\* sends its request under ctx, so it fails once ctx is cancelled.
ParseTask(n) ==
    /\ pc = "parse_task"
    /\ ExtCall
    /\ \/ /\ ~ctxCancelled
          /\ \E p \in Plans(n) :
                /\ plan' = p
                /\ idx' = 1
                /\ pc' = LoopPc(1, p)
          /\ chatCalls' = chatCalls + 1
          /\ UNCHANGED <<auxVars, session,
                   taskVars, cfgVars, retErr, drv, connectCalls, closeCalls, snapshot,
                         err, refined, stepResults, screenshots, hist, envVars>>
       \/ /\ Failing("parse task")
          /\ chatCalls' = chatCalls + 1

\* The StepResult appended when RefineStep errs (lines 144-147).
RecordRefineFailureDropped(results, firstErr, refineErr) == results

RecordRefineFailure(results, firstErr, refineErr) ==
    Append(results, [success |-> FALSE, error |-> firstErr])

\* The result kept after the refined step ran (line 152 reassigns result).
RefinedOutcomeKeepsFirst(first, second) == first

RefinedOutcome(first, second) == second

\* Line 137: the first executeStep of iteration idx.  On success the result
\* and screenshot are appended (lines 155-158); on error the loop turns to
\* RefineStep.
ExecuteStep ==
    /\ pc = "exec"
    /\ ExtCall
    /\ \E drvOk \in BOOLEAN, shotOk \in BOOLEAN :
        LET out == executeStep(plan[idx], drvOk, shotOk) IN
        /\ hist' = Append(hist, [first |-> out.result, refine |-> "none", second |-> NoRes,
                                 execs |-> 1, refines |-> 0,
                                 snaps |-> 0, refineSnap |-> -1,
                                 shots |-> Len(out.screenshot)])
        /\ err' = out.err
        /\ IF out.err = NoErr
           THEN /\ stepResults' = Append(stepResults, out.result)
                /\ screenshots' = screenshots \o out.screenshot
                /\ pc' = "snap"
           ELSE /\ pc' = "refine"
                /\ UNCHANGED <<stepResults, screenshots>>
    /\ UNCHANGED <<auxVars, session, chatCalls,
                   taskVars, cfgVars, retErr, drv, connectCalls, closeCalls, snapshot,
                   plan, idx, refined, envVars>>

RefineErrors == {"llm chat", "parse refined step"}

\* RefineStep decoding its reply into the step it was handed.
AfterRefineInPlace(p, i, r) == [p EXCEPT ![i] = r]

\* plan.Steps once RefineStep returned r for iteration i: the loop variable
\* step is a copy of plan.Steps[i], RefineStep only reads it and decodes the
\* reply into an ActionStep of its own, and the loop assigns nothing to plan.
AfterRefine(p, i, r) == p

\* Where the value of the local snapshot comes from: the number of the last
\* iteration that reached line 161, or 0 for the snapshot of line 112 taken
\* before the loop.
SnapshotOrigin(h) ==
    LET taken == {j \in 1..Len(h) : h[j].snaps > 0}
    IN  IF taken = {} THEN 0 ELSE CHOOSE j \in taken : \A k \in taken : k <= j

\* Lines 141-150: RefineStep reads snapshot.URL before anything else, so a
\* nil snapshot panics the goroutine (the deferred Close runs while it
\* unwinds); otherwise it errs (Chat or parse) or returns a refined step.
RefineStep ==
    /\ pc = "refine"
    /\ \/ /\ snapshot = Nil
          /\ hist' = [hist EXCEPT ![idx].refine = "panic", ![idx].refines = @ + 1,
                                   ![idx].refineSnap = SnapshotOrigin(hist)]
          /\ pc' = "panicked"
          /\ DeferredClose
          /\ UNCHANGED <<auxVars, session, chatCalls,
                   taskVars, cfgVars, retErr, connectCalls, snapshot, plan, idx, err,
                         refined, stepResults, screenshots, envVars, extAfterCancel>>
       \/ /\ snapshot # Nil
          /\ ExtCall
          /\ chatCalls' = chatCalls + 1
          /\ \E e \in RefineErrors :
                stepResults' = RecordRefineFailure(stepResults, err, e)
          /\ hist' = [hist EXCEPT ![idx].refine = "err", ![idx].refines = @ + 1,
                                   ![idx].refineSnap = SnapshotOrigin(hist)]
          /\ idx' = idx + 1
          /\ err' = NoErr
          /\ pc' = LoopPc(idx + 1, plan)
          /\ UNCHANGED <<auxVars, session,
                   taskVars, cfgVars, retErr, drv, connectCalls, closeCalls, snapshot,
                         plan, refined, screenshots, envVars>>
       \/ /\ snapshot # Nil
          /\ ~ctxCancelled
          /\ ExtCall
          /\ chatCalls' = chatCalls + 1
          /\ \E r \in RefinedSteps(plan[idx]) :
                /\ refined' = r
                /\ plan' = AfterRefine(plan, idx, r)
          /\ hist' = [hist EXCEPT ![idx].refine = "ok", ![idx].refines = @ + 1,
                                   ![idx].refineSnap = SnapshotOrigin(hist)]
          /\ pc' = "exec_refined"
          /\ UNCHANGED <<auxVars, session,
                   taskVars, cfgVars, retErr, drv, connectCalls, closeCalls, snapshot,
                         idx, err, stepResults, screenshots, envVars>>

\* The refined step run with its error looked at: a failure goes back to
\* RefineStep instead of being dropped.
ExecuteRefinedRetry ==
    /\ pc = "exec_refined"
    /\ ExtCall
    /\ \E drvOk \in BOOLEAN, shotOk \in BOOLEAN :
        LET out == executeStep(refined, drvOk, shotOk) IN
        /\ hist' = [hist EXCEPT ![idx].second = out.result, ![idx].execs = @ + 1,
                                 ![idx].shots = @ + Len(out.screenshot)]
        /\ IF out.err = NoErr
           THEN /\ stepResults' = Append(stepResults, out.result)
                /\ screenshots' = screenshots \o out.screenshot
                /\ pc' = "snap"
           ELSE /\ pc' = "refine"
                /\ UNCHANGED <<stepResults, screenshots>>
    /\ UNCHANGED <<auxVars, session, chatCalls,
                   taskVars, cfgVars, retErr, drv, connectCalls, closeCalls, snapshot,
                   plan, idx, err, refined, envVars>>

\* Lines 152-158: the refined step runs once, its error is dropped, and its
\* result and screenshot are appended.
ExecuteRefined ==
    /\ pc = "exec_refined"
    /\ ExtCall
    /\ \E drvOk \in BOOLEAN, shotOk \in BOOLEAN :
        LET out == executeStep(refined, drvOk, shotOk) IN
        /\ hist' = [hist EXCEPT ![idx].second = out.result, ![idx].execs = @ + 1,
                                 ![idx].shots = @ + Len(out.screenshot)]
        /\ stepResults' = Append(stepResults, RefinedOutcome(hist[idx].first, out.result))
        /\ screenshots' = screenshots \o out.screenshot
    /\ pc' = "snap"
    /\ UNCHANGED <<auxVars, session, chatCalls,
                   taskVars, cfgVars, retErr, drv, connectCalls, closeCalls, snapshot,
                   plan, idx, err, refined, envVars>>

\* Line 161: the snapshot is taken again, its error dropped: on error the
\* local snapshot becomes nil.  Then the next iteration.
UpdateSnapshot ==
    /\ pc = "snap"
    /\ ExtCall
    /\ \E s \in {Snap, Nil} : snapshot' = s
    /\ hist' = [hist EXCEPT ![idx].snaps = @ + 1]
    /\ idx' = idx + 1
    /\ err' = NoErr
    /\ refined' = NoStep
    /\ pc' = LoopPc(idx + 1, plan)
    /\ UNCHANGED <<auxVars, session, chatCalls,
                   taskVars, cfgVars, retErr, drv, connectCalls, closeCalls,
                   plan, stepResults, screenshots, envVars>>

\* ------------------------------------------------------------- completion
\* generateDocuments: one document per markdown or html format, in request
\* order; other formats and a failed Generate are skipped.  The markdown
\* generator has no error return path; the html one fails when its template
\* does.  The returned error is always nil.
\* generateDocuments with a document for every requested format.
generateDocumentsForAll(fs, htmlOk) == fs

generateDocuments(fs, htmlOk) ==
    SelectSeq(fs, LAMBDA f : f = "markdown" \/ (f = "html" /\ htmlOk))

convertStepResults(results) ==
    [i \in 1..Len(results) |->
        [order |-> i, success |-> results[i].success, error |-> results[i].error]]

\* Lines 164-187: documents, completed, result, Update, return (Close runs).
Finish ==
    /\ pc = "docs"
    /\ \E htmlOk \in BOOLEAN :
        result' = [steps |-> convertStepResults(stepResults),
                   screenshots |-> screenshots,
                   documents |-> generateDocuments(formats, htmlOk),
                   set |-> TRUE]
    /\ status' = TaskStatusCompleted
    /\ persisted' = Persist(TaskStatusCompleted, errorMessage, TRUE)
    /\ updateCalls' = updateCalls + 1
    /\ retErr' = IF UpdateOk THEN NoErr ELSE "update task result"
    /\ pc' = "returned"
    /\ DeferredClose
    /\ UNCHANGED <<auxVars, session,
                   errorMessage, cfgVars, connectCalls, snapshot, loopVars, envVars,
                   extAfterCancel>>

\* ----------------------------------------------------------- environment
\* TaskHandler.CancelTask -> MemoryTaskStore.UpdateStatus: writes the status
\* field of the stored record, which is the record ExecuteTask works on.
CancelTask ==
    /\ TaskID \in store
    /\ status' = TaskStatusCancelled
    /\ cancelRequested' = TRUE
    /\ UNCHANGED <<auxVars, session,
                   store, persisted, updateCalls, errorMessage, result, auth, formats, pc, retErr, drv,
                   connectCalls, closeCalls, snapshot, loopVars, ctxCancelled, extAfterCancel>>

\* The caller of ExecuteTask cancels the context it passed.
CancelContext ==
    /\ pc \notin {"idle", "start", "returned", "panicked"}
    /\ ~ctxCancelled
    /\ ctxCancelled' = TRUE
    /\ UNCHANGED <<auxVars, session,
                   taskVars, cfgVars, pc, retErr, drv, connectCalls, closeCalls, snapshot,
                   loopVars, cancelRequested, extAfterCancel>>

\* --------------------------------------------------------- specifications
BeforeFinish(n) ==
    \/ Start
    \/ Connect
    \/ NavigateForAuth
    \/ Authenticate
    \/ SetCookies
    \/ NavigateAfterAuth
    \/ Navigate
    \/ TakeSnapshot
    \/ ParseTask(n)
    \/ ExecuteStep
    \/ RefineStep
    \/ ExecuteRefined
    \/ UpdateSnapshot

ExecuteTask(n) ==
    \/ BeforeFinish(n)
    \/ Finish

\* One task, executed without interference: the contract of ExecuteTask.
Next ==
    \/ CreateTask
    \/ ExecuteTask(MaxSteps)

Spec == Init /\ [][Next]_allVars

\* The same with cancellation requests and context cancellation arriving at
\* any point of the execution.
NextConc ==
    \/ CreateTask
    \/ ExecuteTask(MaxStepsConc)
    \/ CancelTask
    \/ CancelContext

SpecConc == Init /\ [][NextConc]_allVars

\* ------------------------------------------------- a reader of the task
\* Lines 171-180 as the two writes a concurrent reader can tell apart: the
\* status field first (line 171), then completed_at and the result (lines
\* 173-180) followed by the Update and the return.  The store hands out the
\* pointer to the record ExecuteTask writes to, and ExecuteTask holds no lock.
FinishStatus ==
    /\ pc = "docs"
    /\ status' = TaskStatusCompleted
    /\ pc' = "docs_result"
    /\ UNCHANGED <<auxVars, session, store, persisted, updateCalls, errorMessage, result, auth, formats,
                   retErr, drv, connectCalls, closeCalls, snapshot, loopVars, envVars,
                   extAfterCancel>>

FinishResult ==
    /\ pc = "docs_result"
    /\ \E htmlOk \in BOOLEAN :
        result' = [steps |-> convertStepResults(stepResults),
                   screenshots |-> screenshots,
                   documents |-> generateDocuments(formats, htmlOk),
                   set |-> TRUE]
    /\ persisted' = Persist(TaskStatusCompleted, errorMessage, TRUE)
    /\ updateCalls' = updateCalls + 1
    /\ retErr' = IF UpdateOk THEN NoErr ELSE "update task result"
    /\ pc' = "returned"
    /\ DeferredClose
    /\ UNCHANGED <<auxVars, session, status,
                   errorMessage, cfgVars, connectCalls, snapshot, loopVars, envVars,
                   extAfterCancel>>

\* TaskHandler.GetTask: Get returns the stored pointer and the handler
\* serialises the record as it is at that moment.
GetTask ==
    /\ TaskID \in store
    /\ call' = [fn |-> "GetTask", id |-> TaskID]
    /\ ret' = [set |-> TRUE, status |-> status, errorMessage |-> errorMessage,
               hasResult |-> result.set]
    /\ UNCHANGED <<vars, sharedVars, trace, manual>>

\* One task executed while a client polls it.
NextRead ==
    \/ CreateTask
    \/ BeforeFinish(MaxStepsConc)
    \/ FinishStatus
    \/ FinishResult
    \/ GetTask

SpecRead == Init /\ [][NextRead]_allVars

\* MemoryTaskStore.Delete of the task's id by another user of the store:
\* from then on Update answers ErrNotFound.
DeleteTask ==
    /\ TaskID \in store
    /\ store' = store \ {TaskID}
    /\ UNCHANGED <<auxVars, session, taskVars, auth, formats, pc, retErr, drv, connectCalls,
                   closeCalls, snapshot, loopVars, envVars, extAfterCancel>>

\* One task executed on a store that may lose the task at any point.
NextDeleted ==
    \/ CreateTask
    \/ ExecuteTask(MaxStepsConc)
    \/ DeleteTask

SpecDeleted == Init /\ [][NextDeleted]_allVars

\* -------------------------------------------- tasks on the shared driver
\* server main builds one PlaywrightController and hands it to the one
\* Orchestrator; every CreateTask request runs ExecuteTask on a goroutine
\* of its own, all on that controller.  Connect stores what it creates in
\* the controller's fields, every page operation goes to c.page, and Close
\* closes whatever the three fields point at.  The fields are read and
\* written without synchronisation; each call below is one step.

\* TaskHandler.CreateTask dispatches ExecuteTask for task t.
Dispatch(t) ==
    /\ exec[t] = "idle"
    /\ exec' = [exec EXCEPT ![t] = "connect"]
    /\ UNCHANGED <<ctl, res, used, tasks, vars, callVars>>

\* The controller's fields after Connect call number k ended the way o.
ConnectFields(k, o) ==
    CASE o = "run_err"    -> ctl
      [] o = "launch_err" -> [ctl EXCEPT !.pw = k]
      [] o = "page_err"   -> [ctl EXCEPT !.pw = k, !.browser = k]
      [] OTHER            -> [pw |-> k, browser |-> k, page |-> k]

\* What Connect call o of task t created, each resource open.
Created(t, o) ==
    [owner |-> t, pw |-> o # "run_err", browser |-> o \in {"page_err", "ok"},
     page |-> o = "ok"]

\* Task t operates on a resource Connect call k made: is that call another
\* task's, and is that task between its Connect and its Close?
Use(t, k) ==
    [task |-> t, made |-> k,
     foreign |-> res[k].owner # t /\ exec[res[k].owner] = "work"]

\* ExecuteTask line 68 on the shared controller; on error the task fails
\* and returns with no Close.
ConnectShared(t) ==
    /\ exec[t] = "connect"
    /\ \E o \in ConnectOutcomes :
        /\ ctl' = ConnectFields(Len(res) + 1, o)
        /\ res' = Append(res, Created(t, o))
        /\ exec' = [exec EXCEPT ![t] = IF o = "ok" THEN "work" ELSE "done"]
    /\ UNCHANGED <<used, tasks, vars, callVars>>

\* Navigate, an action, TakeSnapshot, ...: all act on c.page as it is now.
PageOp(t) ==
    /\ exec[t] = "work"
    /\ used' = used \cup {Use(t, ctl.page)}
    /\ UNCHANGED <<ctl, res, exec, tasks, vars, callVars>>

\* The deferred Close: c.page.Close, c.browser.Close, c.pw.Stop on the
\* fields as they are now; the fields keep pointing at what was closed.
CloseShared(t) ==
    /\ exec[t] = "work"
    /\ used' = used \cup {Use(t, ctl.page), Use(t, ctl.browser), Use(t, ctl.pw)}
    /\ res' = [k \in 1..Len(res) |->
                 [owner |-> res[k].owner,
                  pw |-> res[k].pw /\ k # ctl.pw,
                  browser |-> res[k].browser /\ k # ctl.browser,
                  page |-> res[k].page /\ k # ctl.page]]
    /\ exec' = [exec EXCEPT ![t] = "done"]
    /\ UNCHANGED <<ctl, tasks, vars, callVars>>

NextShared ==
    \/ \E t \in Tasks : Dispatch(t)
    \/ \E t \in Tasks : ConnectShared(t)
    \/ \E t \in Tasks : PageOp(t)
    \/ \E t \in Tasks : CloseShared(t)

SpecShared == Init /\ [][NextShared]_allVars

\* ---------------------------------------------------------- MemoryTaskStore
\* The store's methods, each one step under the store's mutex.  tasks[i] is
\* the map entry of id i: absent (never created), present with the stored
\* task's status, or deleted.
ErrNotFound == "resource not found"
TaskStatuses ==
    {TaskStatusPending, TaskStatusRunning, TaskStatusCompleted, TaskStatusFailed,
     TaskStatusCancelled}

Create(i) ==
    /\ tasks' = [tasks EXCEPT ![i] = [state |-> "present", status |-> TaskStatusPending]]
    /\ call' = [fn |-> "Create", id |-> i]
    /\ ret' = [set |-> TRUE, task |-> Absent, err |-> NoErr]

Get(i) ==
    /\ call' = [fn |-> "Get", id |-> i]
    /\ ret' = IF tasks[i].state = "present"
              THEN [set |-> TRUE, task |-> tasks[i], err |-> NoErr]
              ELSE [set |-> TRUE, task |-> Absent, err |-> ErrNotFound]
    /\ UNCHANGED tasks

\* Update storing the task whether or not its id is in the map.
UpdateUpsert(i, st) ==
    /\ call' = [fn |-> "Update", id |-> i]
    /\ tasks' = [tasks EXCEPT ![i] = [state |-> "present", status |-> st]]
    /\ ret' = [set |-> TRUE, task |-> Absent, err |-> NoErr]

\* Update(task) for a task object with id i whose status field is st.
Update(i, st) ==
    /\ call' = [fn |-> "Update", id |-> i]
    /\ IF tasks[i].state = "present"
       THEN /\ tasks' = [tasks EXCEPT ![i] = [state |-> "present", status |-> st]]
            /\ ret' = [set |-> TRUE, task |-> Absent, err |-> NoErr]
       ELSE /\ tasks' = tasks
            /\ ret' = [set |-> TRUE, task |-> Absent, err |-> ErrNotFound]

UpdateStatus(i, st) ==
    /\ call' = [fn |-> "UpdateStatus", id |-> i]
    /\ IF tasks[i].state = "present"
       THEN /\ tasks' = [tasks EXCEPT ![i].status = st]
            /\ ret' = [set |-> TRUE, task |-> Absent, err |-> NoErr]
       ELSE /\ tasks' = tasks
            /\ ret' = [set |-> TRUE, task |-> Absent, err |-> ErrNotFound]

Delete(i) ==
    /\ call' = [fn |-> "Delete", id |-> i]
    /\ tasks' = [tasks EXCEPT ![i] = IF @.state = "present"
                                    THEN [state |-> "deleted", status |-> "none"] ELSE @]
    /\ ret' = [set |-> TRUE, task |-> Absent, err |-> NoErr]

NextStore ==
    /\ \/ \E i \in Tasks : Create(i)
       \/ \E i \in Tasks : Get(i)
       \/ \E i \in Tasks, st \in TaskStatuses : Update(i, st)
       \/ \E i \in Tasks, st \in TaskStatuses : UpdateStatus(i, st)
       \/ \E i \in Tasks : Delete(i)
    /\ UNCHANGED <<vars, ctl, res, exec, used, trace, manual>>

SpecStore == Init /\ [][NextStore]_allVars

\* ------------------------------------------------------------ auth.Service
\* Time is counted in hours from an arbitrary origin; a session lives 24 h.
SessionTTL == 24

\* domain.AuthConfig as Authenticate reads it.  "ldap" stands for any type
\* the switch has no case for.
AuthConfigTypes == {"none", "form", "sso", "manual", "cookie", "token", "ldap"}
NoCredentials == [set |-> FALSE, token |-> ""]
Credentials == {NoCredentials, [set |-> TRUE, token |-> ""], [set |-> TRUE, token |-> "t"]}
AuthConfigs ==
    [type : AuthConfigTypes, credentials : Credentials, ssoConfig : BOOLEAN,
     cookies : {<<>>, <<"c">>, <<"c", "d">>}]

\* A behaviour of the browser driver during one Authenticate call: which of
\* the operations whose error is looked at fail, what GetCookies returns,
\* whether the page is the SSO login page, and how the manual-login wait
\* ends (the page left the login page, the five minutes ran out, or the
\* context was cancelled).
CheckedOps == {"WaitForSelector", "FillPassword", "WaitForNavigation", "GetCookies", "SetCookies"}
DriverBehaviours ==
    [failing : SUBSET CheckedOps, cookies : {<<>>, <<"c">>}, onSSOPage : BOOLEAN,
     manual : {"left", "timeout", "ctx_done"}]

\* &domain.Session{...} built at instant t.
NewSession(t, cookies, hasHeaders) ==
    [set |-> TRUE, cookies |-> cookies, headers |-> hasHeaders,
     expiresAt |-> t + SessionTTL, createdAt |-> t]

\* A nil *domain.Session.
NilSession == [set |-> FALSE]

Returned(sess, calls) == [session |-> sess, err |-> NoErr, calls |-> calls]
Failed(e, calls) == [session |-> NilSession, err |-> e, calls |-> calls]

\* The driver calls made up to and including op, then either its error or
\* the rest of the function.
Try(d, calls, op, e, rest) ==
    IF op \in d.failing THEN Failed(e, Append(calls, op)) ELSE rest

\* createEmptySession with the expiry set to the creation instant.
createEmptySessionExpired(t) == [NewSession(t, <<>>, FALSE) EXCEPT !.expiresAt = t]

createEmptySession(t) == NewSession(t, <<>>, FALSE)

authenticateWithForm(c, d, t) ==
    IF ~c.credentials.set THEN Failed("credentials required for form auth", <<>>)
    ELSE Try(d, <<>>, "WaitForSelector", "login form not found",
         Try(d, <<"WaitForSelector", "FillUsername">>, "FillPassword", "fill password",
         Try(d, <<"WaitForSelector", "FillUsername", "FillPassword", "Click">>,
             "GetCookies", "get cookies",
             Returned(NewSession(t, d.cookies, FALSE),
                      <<"WaitForSelector", "FillUsername", "FillPassword", "Click",
                        "GetCookies">>))))

\* performSSOLogin runs only on the SSO login page and with credentials.
authenticateWithSSO(c, d, t) ==
    IF ~c.ssoConfig THEN Failed("sso config required", <<>>)
    ELSE Try(d, <<>>, "WaitForNavigation", "wait for sso redirect",
         LET login == d.onSSOPage /\ c.credentials.set
             pre == <<"WaitForNavigation", "GetCurrentURL">>
             mid == IF login THEN pre \o <<"FillUsername", "FillPassword", "Click">> ELSE pre
         IN  IF login /\ "FillPassword" \in d.failing
             THEN Failed("sso login", pre \o <<"FillUsername", "FillPassword">>)
             ELSE Try(d, mid, "GetCookies", "get cookies",
                      Returned(NewSession(t, d.cookies, FALSE), Append(mid, "GetCookies"))))

\* The polling loop ends on ctx.Done, on the timeout, or on the first poll
\* that finds the page off the login page.
authenticateManually(c, d, t) ==
    CASE d.manual = "ctx_done" -> Failed("context canceled", <<>>)
      [] d.manual = "timeout"  -> Failed("manual login timeout", <<"GetCurrentURL">>)
      [] OTHER ->
            Try(d, <<"GetCurrentURL">>, "GetCookies", "get cookies",
                Returned(NewSession(t, d.cookies, FALSE), <<"GetCurrentURL", "GetCookies">>))

\* authenticateWithCookies without the check for an empty cookie set.
authenticateWithCookiesUnchecked(c, d, t) ==
    LET made == <<[op |-> "SetCookies", cookies |-> c.cookies]>>
    IN  IF "SetCookies" \in d.failing THEN Failed("set cookies", made)
        ELSE Returned(NewSession(t, c.cookies, FALSE), made)

\* The one driver call of the cookie variant is recorded with its argument.
authenticateWithCookies(c, d, t) ==
    IF Len(c.cookies) = 0 THEN Failed("cookies required", <<>>)
    ELSE LET made == <<[op |-> "SetCookies", cookies |-> c.cookies]>>
         IN  IF "SetCookies" \in d.failing THEN Failed("set cookies", made)
             ELSE Returned(NewSession(t, c.cookies, FALSE), made)

authenticateWithToken(c, d, t) ==
    IF ~c.credentials.set \/ c.credentials.token = "" THEN Failed("token required", <<>>)
    ELSE Returned(NewSession(t, <<>>, TRUE), <<>>)

\* Service.Authenticate(config) against driver behaviour d, the session (if
\* any) being built at instant t.
AuthenticateResult(c, d, t) ==
    CASE c.type = "none"   -> Returned(createEmptySession(t), <<>>)
      [] c.type = "form"   -> authenticateWithForm(c, d, t)
      [] c.type = "sso"    -> authenticateWithSSO(c, d, t)
      [] c.type = "manual" -> authenticateManually(c, d, t)
      [] c.type = "cookie" -> authenticateWithCookies(c, d, t)
      [] c.type = "token"  -> authenticateWithToken(c, d, t)
      [] OTHER             -> Failed("unsupported auth type", <<>>)

\* ValidateSession with the comparison the other way round at the boundary.
ValidateSessionStrict(sess, now) ==
    IF ~sess.set THEN FALSE
    ELSE IF now >= sess.expiresAt THEN FALSE
    ELSE TRUE

\* Service.ValidateSession: time.Now().After(session.ExpiresAt) is false when
\* the two instants are equal.
ValidateSession(sess, now) ==
    IF ~sess.set THEN FALSE
    ELSE IF now > sess.expiresAt THEN FALSE
    ELSE TRUE

\* Sessions ValidateSession may be handed: nil, or one expiring at any
\* instant of the clock's range.
SessionArgs ==
    {NilSession} \cup {[NewSession(0, <<>>, FALSE) EXCEPT !.expiresAt = e] : e \in 0..MaxTime}

AuthServiceCalls ==
    {[fn |-> "Authenticate", config |-> c, driver |-> d] :
        c \in AuthConfigs, d \in DriverBehaviours}
    \cup {[fn |-> "ValidateSession", session |-> s, now |-> n] :
        s \in SessionArgs, n \in 0..MaxTime}

\* ------------------------------------------- authenticateManually, stepwise
\* The loop of authenticateManually one select at a time.  Time is counted
\* in ticker intervals (2 s); the timeout channel is ready from ManualCeiling
\* intervals on (5 minutes), the ticker channel holds at most one tick, and
\* ctx.Done stays ready once the context is cancelled.  A select with more
\* than one ready channel takes any of them.
ManualCeiling == 3

\* What GetCurrentURL can report; when it errs its string result is "".
URLs == {"/login", "/oauth/callback", "/home"}

\* isOnLoginPage: the URL contains login, signin, sign-in or auth.
isOnLoginPage(url) == url \in {"/login", "/oauth/callback"}

\* One pass of the ticker case that harvests cookies whatever the URL is.
pollOnceIgnoresURL(url, urlOk, cookiesOk, cookies, t) ==
    LET seen == <<[op |-> "GetCurrentURL", url |-> url, ok |-> urlOk],
                  [op |-> "GetCookies", url |-> url, ok |-> cookiesOk]>>
    IN  IF cookiesOk
        THEN [done |-> TRUE, session |-> NewSession(t, cookies, FALSE), err |-> NoErr, calls |-> seen]
        ELSE [done |-> TRUE, session |-> NilSession, err |-> "get cookies", calls |-> seen]

\* One pass of the ticker case (lines 190-203) at instant t, for a driver
\* whose GetCurrentURL reports url or errs (urlOk false: the error is dropped
\* and currentURL is "") and that answers GetCookies with cookies or with an
\* error.
pollOnce(url, urlOk, cookiesOk, cookies, t) ==
    LET currentURL == IF urlOk THEN url ELSE ""
        seen == <<[op |-> "GetCurrentURL", url |-> currentURL, ok |-> urlOk]>>
        both == Append(seen, [op |-> "GetCookies", url |-> currentURL, ok |-> cookiesOk])
    IN  IF isOnLoginPage(currentURL)
        THEN [done |-> FALSE, session |-> NilSession, err |-> NoErr, calls |-> seen]
        ELSE IF cookiesOk
        THEN [done |-> TRUE, session |-> NewSession(t, cookies, FALSE), err |-> NoErr, calls |-> both]
        ELSE [done |-> TRUE, session |-> NilSession, err |-> "get cookies", calls |-> both]

InitManual ==
    /\ TaskInit
    /\ SharedIdle
    /\ call = [fn |-> "authenticateManually"]
    /\ ret = NoRet
    /\ trace = <<>>
    /\ manual = ManualIdle

\* One ticker interval passes: the ticker delivers a tick (dropped when one
\* is already waiting).
Elapse ==
    /\ manual.now <= ManualCeiling
    /\ manual' = [manual EXCEPT !.now = @ + 1, !.tick = TRUE]
    /\ UNCHANGED <<call, ret, trace>>

\* The caller's context is cancelled.
CancelManual ==
    /\ ~manual.cancelled
    /\ manual' = [manual EXCEPT !.cancelled = TRUE]
    /\ UNCHANGED <<call, ret, trace>>

\* case <-ctx.Done()
SelectDone ==
    /\ ~ret.set
    /\ manual.cancelled
    /\ ret' = [set |-> TRUE, session |-> NilSession, err |-> "context canceled",
               at |-> manual.now]
    /\ UNCHANGED <<call, trace, manual>>

\* case <-timeout
SelectTimeout ==
    /\ ~ret.set
    /\ manual.now >= ManualCeiling
    /\ ret' = [set |-> TRUE, session |-> NilSession, err |-> "manual login timeout",
               at |-> manual.now]
    /\ UNCHANGED <<call, trace, manual>>

\* case <-ticker.C
SelectTick ==
    /\ ~ret.set
    /\ manual.tick
    /\ \E url \in URLs, urlOk \in BOOLEAN, cookiesOk \in BOOLEAN, cookies \in {<<>>, <<"c">>} :
        LET r == pollOnce(url, urlOk, cookiesOk, cookies, manual.now) IN
        /\ trace' = trace \o r.calls
        /\ ret' = IF r.done
                  THEN [set |-> TRUE, session |-> r.session, err |-> r.err, at |-> manual.now]
                  ELSE ret
    /\ manual' = [manual EXCEPT !.tick = FALSE]
    /\ UNCHANGED call

NextManual ==
    /\ \/ Elapse
       \/ CancelManual
       \/ SelectDone
       \/ SelectTimeout
       \/ SelectTick
    /\ UNCHANGED <<vars, sharedVars>>

\* Time passes, and a select whose timeout channel stays ready takes it in
\* the end (the runtime chooses uniformly among the ready cases).
SpecManual ==
    /\ InitManual
    /\ [][NextManual]_allVars
    /\ WF_allVars(Elapse /\ UNCHANGED <<vars, sharedVars>>)
    /\ WF_allVars(SelectTimeout /\ UNCHANGED <<vars, sharedVars>>)

\* ---------------------------------------------------------------- planner
\* A model reply is a sequence of characters: the two braces and "d", which
\* stands for any other character.
Chars == {"{", "}", "d"}

\* All texts of up to n characters.
Texts(n) == UNION {[1..k -> Chars] : k \in 0..n}

\* Braces opened and not yet closed after the first i characters of text.
Depth(text, i) ==
    Cardinality({j \in 1..i : text[j] = "{"}) - Cardinality({j \in 1..i : text[j] = "}"})

\* json.Unmarshal accepts a text that is one JSON object from its first to
\* its last character, nothing before or after it; an object nested in it is
\* the value of a member, so something precedes its brace.
IsObject(text) ==
    /\ Len(text) >= 2
    /\ text[1] = "{"
    /\ \A i \in 2..Len(text) : text[i] = "{" => text[i - 1] = "d"
    /\ \A i \in 1..(Len(text) - 1) : Depth(text, i) > 0
    /\ Depth(text, Len(text)) = 0

\* The TaskPlan an object text decodes to: its description is made of the
\* characters at the top level of the object (their number stands for it),
\* its steps are the objects nested in it.
NoPlan == [description |-> 0, steps |-> 0, set |-> FALSE]
Decode(text) ==
    [description |-> Cardinality({i \in 2..Len(text) : text[i] = "d" /\ Depth(text, i) = 1}),
     steps |-> Cardinality({i \in 2..Len(text) : text[i] = "{" /\ Depth(text, i) = 2}),
     set |-> TRUE]

Unmarshal(text) ==
    IF IsObject(text) THEN [ok |-> TRUE, plan |-> Decode(text)]
    ELSE [ok |-> FALSE, plan |-> NoPlan]

\* The loop of extractJSON from position i on, start being the position of
\* the first "{" seen (0: none yet): it stops at the first "}" that brings
\* the depth back to 0.
RECURSIVE extractScan(_, _, _, _)
extractScan(content, i, start, depth) ==
    IF i > Len(content) THEN [start |-> start, end |-> 0]
    ELSE IF content[i] = "{"
         THEN extractScan(content, i + 1, IF start = 0 THEN i ELSE start, depth + 1)
    ELSE IF content[i] = "}"
         THEN IF depth - 1 = 0 THEN [start |-> start, end |-> i]
              ELSE extractScan(content, i + 1, start, depth - 1)
    ELSE extractScan(content, i + 1, start, depth)

extractJSON(content) ==
    LET r == extractScan(content, 1, 0, 0) IN
    IF r.start # 0 /\ r.end # 0 THEN SubSeq(content, r.start, r.end) ELSE content

\* AIPlanner.ParseTask on a reply Chat returned: strict parse, then the
\* parse of what extractJSON cut out.
ParseTaskResult(content) ==
    IF Unmarshal(content).ok THEN [plan |-> Unmarshal(content).plan, err |-> NoErr]
    ELSE IF Unmarshal(extractJSON(content)).ok
         THEN [plan |-> Unmarshal(extractJSON(content)).plan, err |-> NoErr]
    ELSE [plan |-> NoPlan, err |-> "parse plan"]

\* Plan objects a reply may embed: without steps, and with one step.
PlanTexts == {<<"{", "d", "}">>, <<"{", "d", "{", "d", "}", "}">>}

\* Replies made of prose, a plan object, and prose.
ParseTaskCalls ==
    {[fn |-> "ParseTask", before |-> b, object |-> o, after |-> a] :
        b \in Texts(MaxProse), o \in PlanTexts, a \in Texts(MaxProse)}

\* What LLMClient.Chat may return: a reply, or one of its errors.
ChatOutcomes ==
    {[ok |-> TRUE, content |-> c, err |-> NoErr] : c \in {"", "Press the button"}}
    \cup {[ok |-> FALSE, content |-> "", err |-> e] :
            e \in {"send request", "API error", "no choices in response"}}

\* GenerateStepDescription handing the Chat error on to its caller.
GenerateStepDescriptionPropagates(description, chat) ==
    IF ~chat.ok THEN [text |-> "", err |-> "llm chat: " \o chat.err]
    ELSE [text |-> chat.content, err |-> NoErr]

\* AIPlanner.GenerateStepDescription for a step with that description.
GenerateStepDescription(description, chat) ==
    IF ~chat.ok THEN [text |-> description, err |-> NoErr]
    ELSE [text |-> chat.content, err |-> NoErr]

GenerateStepDescriptionCalls ==
    {[fn |-> "GenerateStepDescription", description |-> d, chat |-> c] :
        d \in {"", "click a"}, c \in ChatOutcomes}

\* -------------------------------------------------------------- LLM client
\* domain.LLMProvider; "mistral" stands for a tag the domain does not list.
Providers ==
    {"openai", "anthropic", "azure", "google", "deepseek", "qwen", "zhipu", "moonshot",
     "ollama", "local_proxy", "custom", "mistral"}

\* GetLLMPresets: the default endpoint listed for a provider ("" when the
\* preset has none or there is no preset).
PresetEndpoint(provider) ==
    CASE provider = "openai"      -> "https://api.openai.com/v1"
      [] provider = "anthropic"   -> "https://api.anthropic.com/v1"
      [] provider = "deepseek"    -> "https://api.deepseek.com/v1"
      [] provider = "qwen"        -> "https://dashscope.aliyuncs.com/compatible-mode/v1"
      [] provider = "moonshot"    -> "https://api.moonshot.cn/v1"
      [] provider = "ollama"      -> "http://localhost:11434/v1"
      [] provider = "local_proxy" -> "http://localhost:8000/v1"
      [] OTHER                    -> ""

\* NewClient's switch with no case for anthropic.
ClientShapeOpenAIOnly(provider) == "openai"

\* LLMClientFactory.NewClient: the client type the provider tag selects.
ClientShape(provider) == IF provider = "anthropic" THEN "anthropic" ELSE "openai"

\* NewAnthropicClient / NewOpenAICompatibleClient: config.Endpoint after the
\* constructor ran.
EffectiveEndpoint(config) ==
    IF config.endpoint # "" THEN config.endpoint
    ELSE IF ClientShape(config.provider) = "anthropic" THEN "https://api.anthropic.com/v1"
    ELSE CASE config.provider = "openai"   -> "https://api.openai.com/v1"
           [] config.provider = "deepseek" -> "https://api.deepseek.com/v1"
           [] config.provider = "ollama"   -> "http://localhost:11434/v1"
           [] config.provider = "moonshot" -> "https://api.moonshot.cn/v1"
           [] config.provider = "qwen"     -> "https://dashscope.aliyuncs.com/compatible-mode/v1"
           [] OTHER                        -> ""

\* NewClient(config): the client and the (always nil) error.
NewClient(config) ==
    [shape |-> ClientShape(config.provider), endpoint |-> EffectiveEndpoint(config),
     apiKey |-> config.apiKey, err |-> NoErr]

\* The HTTP request Chat of that client builds: URL and headers.
ChatRequest(client) ==
    IF client.shape = "anthropic"
    THEN [url |-> client.endpoint \o "/messages",
          headers |-> {[name |-> "Content-Type", value |-> "application/json"],
                       [name |-> "x-api-key", value |-> client.apiKey],
                       [name |-> "anthropic-version", value |-> "2023-06-01"]}]
    ELSE [url |-> client.endpoint \o "/chat/completions",
          headers |-> {[name |-> "Content-Type", value |-> "application/json"]}
                      \cup (IF client.apiKey # ""
                            THEN {[name |-> "Authorization",
                                   value |-> "Bearer " \o client.apiKey]}
                            ELSE {})]

NewClientCalls ==
    {[fn |-> "NewClient", config |-> [provider |-> p, endpoint |-> e, apiKey |-> k]] :
        p \in Providers, e \in {"", "http://proxy:9000/v1"}, k \in {"", "sk-1"}}

\* Steps executeStep may be handed: every action its switch knows and one it
\* does not, with and without target, wait selector and screenshot.
StepArgs ==
    [order : {1, 2},
     action : {"navigate", "click", "fill", "hover", "select", "wait",
               "screenshot", "scroll", "", "Click"},
     target : {"", "a"}, value : {"", "v"}, waitFor : {"", "b"}, screenshot : BOOLEAN]

ExecuteStepCalls ==
    {[fn |-> "executeStep", step |-> st, drvOk |-> d, shotOk |-> sh] :
        st \in StepArgs, d \in BOOLEAN, sh \in BOOLEAN}

\* ------------------------------------------- OpenAICompatibleClient.Chat
\* HTTP answers to the one POST of a Chat call: status line and body.  A body
\* either fails to decode into OpenAIResponse or decodes with its choices.
HTTPStatuses ==
    {[code |-> 200, status |-> "200 OK"], [code |-> 201, status |-> "201 Created"],
     [code |-> 204, status |-> "204 No Content"], [code |-> 302, status |-> "302 Found"],
     [code |-> 401, status |-> "401 Unauthorized"],
     [code |-> 500, status |-> "500 Internal Server Error"]}

Choices ==
    {[content |-> "first", finishReason |-> "stop"],
     [content |-> "second", finishReason |-> "length"]}

HTTPBodies ==
    {[text |-> "<html>", decodes |-> FALSE, choices |-> <<>>],
     [text |-> "{}", decodes |-> TRUE, choices |-> <<>>]}
    \cup {[text |-> "choices:" \o a.content, decodes |-> TRUE, choices |-> <<a>>] : a \in Choices}
    \cup {[text |-> "choices:" \o a.content \o "," \o b.content, decodes |-> TRUE,
           choices |-> <<a, b>>] : a \in Choices, b \in Choices}

NoResponse == [set |-> FALSE, content |-> "", finishReason |-> ""]

\* Chat answering with the last choice of the response.
OpenAIChatLastChoice(sent, st, body) ==
    IF ~sent THEN [response |-> NoResponse, err |-> "send request"]
    ELSE IF st.code # 200
    THEN [response |-> NoResponse, err |-> "API error: " \o st.status \o " - " \o body.text]
    ELSE IF ~body.decodes THEN [response |-> NoResponse, err |-> "decode response"]
    ELSE IF Len(body.choices) = 0
    THEN [response |-> NoResponse, err |-> "no choices in response"]
    ELSE [response |-> [set |-> TRUE, content |-> body.choices[Len(body.choices)].content,
                        finishReason |-> body.choices[Len(body.choices)].finishReason],
          err |-> NoErr]

\* Chat (lines 359-430) once the request is built: httpClient.Do fails
\* (sent false) or answers with status st and body.
OpenAIChat(sent, st, body) ==
    IF ~sent THEN [response |-> NoResponse, err |-> "send request"]
    ELSE IF st.code # 200
    THEN [response |-> NoResponse, err |-> "API error: " \o st.status \o " - " \o body.text]
    ELSE IF ~body.decodes THEN [response |-> NoResponse, err |-> "decode response"]
    ELSE IF Len(body.choices) = 0
    THEN [response |-> NoResponse, err |-> "no choices in response"]
    ELSE [response |-> [set |-> TRUE, content |-> body.choices[1].content,
                        finishReason |-> body.choices[1].finishReason],
          err |-> NoErr]

ChatCalls ==
    {[fn |-> "Chat", sent |-> d, st |-> st, body |-> b] :
        d \in BOOLEAN, st \in HTTPStatuses, b \in HTTPBodies}

\* One call of one of the functions under study, with arguments (and
\* collaborator behaviour) drawn from its argument set.
Calls ==
    AuthServiceCalls \cup ExecuteStepCalls \cup ParseTaskCalls
    \cup GenerateStepDescriptionCalls \cup NewClientCalls \cup ChatCalls

InitCalls ==
    /\ TaskInit
    /\ SharedIdle
    /\ call \in Calls
    /\ ret = NoRet
    /\ trace = <<>>
    /\ manual = ManualIdle

\* Authenticate is entered at instant 0, builds its session (if any) at t and
\* returns at t + lag; ret.at is the instant of the return.
AuthenticateCall ==
    /\ call.fn = "Authenticate"
    /\ ~ret.set
    /\ \E t \in 0..MaxElapsed, lag \in 0..MaxElapsed :
        LET r == AuthenticateResult(call.config, call.driver, t) IN
        /\ ret' = [set |-> TRUE, session |-> r.session, err |-> r.err, at |-> t + lag]
        /\ trace' = r.calls
    /\ UNCHANGED <<call, manual, vars, sharedVars>>

ValidateSessionCall ==
    /\ call.fn = "ValidateSession"
    /\ ~ret.set
    /\ ret' = [set |-> TRUE, valid |-> ValidateSession(call.session, call.now), err |-> NoErr]
    /\ UNCHANGED <<call, trace, manual, vars, sharedVars>>

ExecuteStepCall ==
    /\ call.fn = "executeStep"
    /\ ~ret.set
    /\ LET out == executeStep(call.step, call.drvOk, call.shotOk) IN
        ret' = [set |-> TRUE, result |-> out.result, screenshot |-> out.screenshot,
                err |-> out.err]
    /\ trace' = executeStepCalls(call.step, call.drvOk)
    /\ UNCHANGED <<call, manual, vars, sharedVars>>

ParseTaskCall ==
    /\ call.fn = "ParseTask"
    /\ ~ret.set
    /\ LET content == call.before \o call.object \o call.after
           r == ParseTaskResult(content)
       IN  ret' = [set |-> TRUE, plan |-> r.plan, err |-> r.err,
                   retried |-> IF Unmarshal(content).ok THEN <<>> ELSE extractJSON(content)]
    /\ trace' = <<"Chat">>
    /\ UNCHANGED <<call, manual, vars, sharedVars>>

GenerateStepDescriptionCall ==
    /\ call.fn = "GenerateStepDescription"
    /\ ~ret.set
    /\ LET r == GenerateStepDescription(call.description, call.chat) IN
        ret' = [set |-> TRUE, text |-> r.text, err |-> r.err]
    /\ trace' = <<"Chat">>
    /\ UNCHANGED <<call, manual, vars, sharedVars>>

\* NewClient, then the request the client's Chat sends.
NewClientCall ==
    /\ call.fn = "NewClient"
    /\ ~ret.set
    /\ LET c == NewClient(call.config) IN
        ret' = [set |-> TRUE, client |-> c, err |-> c.err, request |-> ChatRequest(c)]
    /\ trace' = <<"Chat">>
    /\ UNCHANGED <<call, manual, vars, sharedVars>>

\* One Chat call: the requests it sent and what it returned.
ChatCall ==
    /\ call.fn = "Chat"
    /\ ~ret.set
    /\ LET r == OpenAIChat(call.sent, call.st, call.body) IN
        ret' = [set |-> TRUE, response |-> r.response, err |-> r.err]
    /\ trace' = <<"POST /chat/completions">>
    /\ UNCHANGED <<call, manual, vars, sharedVars>>

NextCalls ==
    \/ ChatCall
    \/ NewClientCall
    \/ AuthenticateCall
    \/ ValidateSessionCall
    \/ ExecuteStepCall
    \/ ParseTaskCall
    \/ GenerateStepDescriptionCall

SpecCalls == InitCalls /\ [][NextCalls]_allVars

\* ================================================================ claims
Terminal == {"returned", "panicked"}

\* The errors ExecuteTask wraps for the calls before the step loop.  (NewClient
\* has no error return path, so "create llm client" never occurs.)
FatalErrors ==
    {"connect browser", "navigate for auth", "authenticate", "set cookies",
     "navigate after auth", "navigate", "take snapshot", "parse task"}

\* C1: the step loop keeps exactly one StepResult per planned step, in plan
\* order: while iteration idx runs the list holds idx-1 results, after its
\* append idx, after the loop as many as the plan has steps, and the k-th
\* result is the outcome of an execution made for the k-th step; the reported
\* result numbers them 1..n.
C1_OneResultPerStep ==
    /\ pc \in {"exec", "refine", "exec_refined"} => Len(stepResults) = idx - 1
    /\ pc = "snap" => Len(stepResults) = idx
    /\ pc = "docs" => Len(stepResults) = Len(plan)
    /\ result.set =>
        /\ Len(result.steps) = Len(plan)
        /\ \A k \in 1..Len(result.steps) : result.steps[k].order = k
    /\ \A k \in 1..Len(stepResults) :
        /\ k <= Len(hist)
        /\ stepResults[k] \in {hist[k].first, hist[k].second}

C1_Witness ==
    /\ pc = "returned"
    /\ result.set
    /\ Len(result.steps) = 3
    /\ \E i, j \in 1..Len(hist) : hist[i].refine = "err" /\ hist[j].refine = "ok"

\* C2: where the first execution failed and RefineStep returned a step, the
\* StepResult at the step's position is the outcome of executing the refined
\* step (success flag and error text), in the local list and in the reported
\* result.
C2_RefinedOutcomeReported ==
    \A k \in 1..Len(hist) :
        (hist[k].refine = "ok" /\ hist[k].execs = 2) =>
            /\ k <= Len(stepResults)
            /\ stepResults[k] = hist[k].second
            /\ result.set =>
                /\ result.steps[k].success = hist[k].second.success
                /\ result.steps[k].error = hist[k].second.error

\* A 3-step plan whose step 2 failed, was refined, and whose refined step
\* failed with another error text than the original.
C2_Witness ==
    /\ result.set
    /\ Len(plan) = 3
    /\ Len(result.steps) = 3
    /\ hist[2].refine = "ok"
    /\ ~hist[2].first.success
    /\ ~hist[2].second.success
    /\ hist[2].second.error # hist[2].first.error
    /\ result.steps[2].error = hist[2].second.error

\* C3 as stated: where the first execution failed and RefineStep returned an
\* error, the StepResult at that position is unsuccessful with the original
\* error text, the step was executed only once, and when the task is over
\* every step of the plan has been executed.
C3_Original ==
    \A k \in 1..Len(hist) :
        hist[k].refine = "err" =>
            /\ k <= Len(stepResults)
            /\ stepResults[k] = [success |-> FALSE, error |-> hist[k].first.error]
            /\ hist[k].execs = 1
            /\ hist[k].second = NoRes
            /\ pc \in Terminal => Len(hist) = Len(plan)

\* C4: for every planned step RefineStep is called at most once and
\* executeStep at most twice, the second time only after the one refinement.
C4_AtMostOneRepair ==
    \A k \in 1..Len(hist) :
        /\ hist[k].refines <= 1
        /\ hist[k].execs <= 2
        /\ hist[k].execs = 2 => hist[k].refine = "ok"

\* The refined attempt of a step failed and the loop went on to a later step.
C4_Witness ==
    \E k \in 1..Len(hist) :
        /\ hist[k].refine = "ok"
        /\ hist[k].execs = 2
        /\ ~hist[k].second.success
        /\ Len(hist) > k

\* C5: when ExecuteTask returns one of the errors of the calls before the
\* step loop, the task is failed at that return, its error_message is that
\* error (not empty), the Update made by failTask was handed exactly that,
\* and no executeStep was ever called.
C5_FatalAborts ==
    [][ (pc # "returned" /\ pc' = "returned" /\ retErr' \in FatalErrors) =>
            /\ status' = TaskStatusFailed
            /\ errorMessage' = retErr'
            /\ errorMessage' # NoErr
            /\ persisted' = [status |-> TaskStatusFailed, errorMessage |-> retErr',
                             hasResult |-> FALSE]
            /\ hist' = <<>>
            /\ stepResults' = <<>>
            /\ ~result'.set ]_vars

C5_Witness ==
    /\ pc = "returned"
    /\ retErr = "parse task"
    /\ errorMessage = "parse task"
    /\ persisted.status = TaskStatusFailed
    /\ hist = <<>>

\* C6 as stated: once ParseTask has returned a plan the task is never
\* aborted: it does not crash, and it returns nil with the task completed,
\* a result set and an empty error_message.
C6_Original ==
    idx >= 1 =>
        /\ pc # "panicked"
        /\ pc = "returned" =>
            /\ retErr = NoErr
            /\ persisted.status = TaskStatusCompleted
            /\ result.set
            /\ errorMessage = NoErr

\* C7 as stated: when ExecuteTask is over, whatever Connect started has been
\* released.
C7_Original ==
    pc \in Terminal => drv = Released

\* C8 as stated: once cancellation has been requested no further plan step
\* is begun (hist grows exactly when a step's first executeStep is called).
C8_Original ==
    [][ cancelRequested => Len(hist') = Len(hist) ]_vars

\* The status changes the lifecycle allows.
AllowedTransition(a, b) ==
    \/ a = "none" /\ b = TaskStatusPending
    \/ a = TaskStatusPending /\ b = TaskStatusRunning
    \/ a = TaskStatusRunning /\ b \in {TaskStatusCompleted, TaskStatusFailed}
    \/ a \in {TaskStatusPending, TaskStatusRunning} /\ b = TaskStatusCancelled

\* C9 as stated: every status change is pending->running, running->completed,
\* running->failed or non-terminal->cancelled.
C9_Original ==
    [][ status' # status => AllowedTransition(status, status') ]_vars

\* C10 as stated: a task that made a browser or language-model call after
\* its context was cancelled ends with an error and failed.
C10_Original ==
    (pc = "returned" /\ extAfterCancel >= 1) =>
        /\ retErr # NoErr
        /\ persisted.status = TaskStatusFailed
\* C11 as stated: with tasks running concurrently, no task's Connect, page
\* operation or Close operates on driver resources that another task, still
\* between its Connect and its Close, created.
C11_Original ==
    \A u \in used : ~u.foreign
\* C12 as stated: once the task is stored, its record (status, error message,
\* result) is written only by the ExecuteTask execution that owns it: every
\* change of a record field is a step of that goroutine (pc moves), never a
\* step of another execution unit taken while the goroutine stands between
\* two of its own writes.
C12_Original ==
    [][ (pc # "idle" /\ <<status, errorMessage, result>>' # <<status, errorMessage, result>>)
            => pc' # pc ]_vars
\* The calls ExecuteTask makes between Connect and the step loop; pc names
\* the call about to be made, so a step that leaves pc = c has made call c.
PreludeCalls ==
    {"navigate", "authenticate", "set_cookies", "navigate_after_auth",
     "take_snapshot", "parse_task"}

AuthCalls == {"authenticate", "set_cookies", "navigate_after_auth"}

\* The call the claim puts after call c when c succeeded.
StatedNextCall(c) ==
    CASE c = "navigate"            -> IF NeedsAuth THEN "authenticate" ELSE "take_snapshot"
      [] c = "authenticate"        -> "set_cookies"
      [] c = "set_cookies"         -> "navigate_after_auth"
      [] c = "navigate_after_auth" -> "take_snapshot"
      [] c = "take_snapshot"       -> "parse_task"
      [] OTHER                     -> "exec"

\* C13 as stated: with an auth type other than none the calls are made in
\* the order Navigate, Authenticate, SetCookies, Navigate, TakeSnapshot,
\* ParseTask (each after the one before succeeded); without auth config or
\* with type none, Authenticate is never called and the one Navigate is
\* followed by TakeSnapshot.
C13_Original ==
    [][ /\ (pc \in PreludeCalls \ {"parse_task"} /\ pc' # pc /\ pc' # "returned")
            => pc' = StatedNextCall(pc)
        /\ ~NeedsAuth => pc' \notin AuthCalls ]_vars

\* C13 amended: the same order, except that SetCookies is called exactly
\* when the session Authenticate returned has at least one cookie; with no
\* cookie the second Navigate follows Authenticate directly.
C13_CallOrder ==
    [][ /\ (pc \in PreludeCalls \ {"parse_task", "authenticate"} /\ pc' # pc /\ pc' # "returned")
            => pc' = StatedNextCall(pc)
        /\ (pc = "authenticate" /\ pc' # "returned")
            => /\ session'.set
               /\ pc' = IF session'.cookies # <<>> THEN "set_cookies"
                        ELSE "navigate_after_auth"
        /\ pc' = "set_cookies" => pc = "authenticate"
        /\ ~NeedsAuth => pc' \notin AuthCalls ]_vars

\* Authenticate returned a session without cookies and the second Navigate is
\* the next call, SetCookies having been skipped.
C13_Witness ==
    /\ pc = "navigate_after_auth"
    /\ session.set
    /\ session.cookies = <<>>
    /\ extAfterCancel = 0
\* C14: for every AuthConfig variant and every behaviour of the driver,
\* Authenticate returns exactly one of a session and an error; a returned
\* session expires strictly after the instant of the return; and the none
\* variant returns no error and makes no driver call.
C14_SessionOrError ==
    (call.fn = "Authenticate" /\ ret.set) =>
        /\ \/ ret.session.set /\ ret.err = NoErr
           \/ ~ret.session.set /\ ret.err # NoErr
        /\ ret.session.set => ret.session.expiresAt > ret.at
        /\ call.config.type = "none" =>
            /\ ret.err = NoErr
            /\ ret.session.set
            /\ trace = <<>>

\* The none variant returned its session some time after building it.
C14_Witness ==
    /\ call.fn = "Authenticate"
    /\ call.config.type = "none"
    /\ call.driver.failing = CheckedOps
    /\ ret.set
    /\ ret.session.set
    /\ ret.at > ret.session.createdAt

\* C15 as stated: ValidateSession returns true iff the session is non-nil
\* and its expires_at is later than the current instant, and never an error.
C15_Original ==
    (call.fn = "ValidateSession" /\ ret.set) =>
        /\ ret.valid <=> (call.session.set /\ call.session.expiresAt > call.now)
        /\ ret.err = NoErr

\* C15 amended: ValidateSession returns false for a nil session and for a
\* session whose expires_at is earlier than the current instant, and true
\* otherwise, a session expiring at exactly the current instant included;
\* it never returns an error.
C15_ValidUntilExpiry ==
    (call.fn = "ValidateSession" /\ ret.set) =>
        /\ ~call.session.set => ~ret.valid
        /\ (call.session.set /\ call.session.expiresAt < call.now) => ~ret.valid
        /\ (call.session.set /\ call.session.expiresAt >= call.now) => ret.valid
        /\ ret.err = NoErr

\* A session expiring at the very instant of the call was found valid.
C15_Witness ==
    /\ call.fn = "ValidateSession"
    /\ ret.set
    /\ call.session.set
    /\ call.session.expiresAt = call.now
    /\ ret.valid
\* The calls of operation op in a sequence of calls.
CallsOf(calls, op) == SelectSeq(calls, LAMBDA c : c.op = op)

\* C16: executeStep of a wait step with an empty wait target succeeds after
\* the fixed 2 s sleep and never calls WaitForSelector; with a non-empty wait
\* target it calls WaitForSelector exactly once, with that target, and does
\* not take the 2 s sleep.
C16_WaitStep ==
    (call.fn = "executeStep" /\ ret.set /\ call.step.action = "wait") =>
        IF call.step.waitFor = ""
        THEN /\ ret.result.success
             /\ ret.err = NoErr
             /\ CallsOf(trace, "wait_for_selector") = <<>>
             /\ trace[1] = [op |-> "sleep", arg |-> "2s"]
        ELSE /\ CallsOf(trace, "wait_for_selector")
                    = <<[op |-> "wait_for_selector", arg |-> call.step.waitFor]>>
             /\ [op |-> "sleep", arg |-> "2s"] \notin {trace[i] : i \in 1..Len(trace)}
             /\ ret.result.success <=> call.drvOk

\* A wait step with a target but no wait selector, on a driver whose
\* operations fail, slept and succeeded.
C16_Witness ==
    /\ call.fn = "executeStep"
    /\ ret.set
    /\ call.step.action = "wait"
    /\ call.step.waitFor = ""
    /\ call.step.target = "a"
    /\ ~call.drvOk
    /\ ret.result.success
\* C17 as stated: from a reply made of a JSON plan object with arbitrary
\* prose before and after it, ParseTask returns the plan the object encodes
\* and no error.
C17_Original ==
    (call.fn = "ParseTask" /\ ret.set) =>
        /\ ret.err = NoErr
        /\ ret.plan = Decode(call.object)
\* C18: GenerateStepDescription returns the step's original description and
\* a nil error whenever the model call fails, and a nil error for every
\* other outcome of the model call as well.
C18_DescriptionFallback ==
    (call.fn = "GenerateStepDescription" /\ ret.set) =>
        /\ ret.err = NoErr
        /\ ~call.chat.ok => ret.text = call.description

\* The model call failed for a step that has a description.
C18_Witness ==
    /\ call.fn = "GenerateStepDescription"
    /\ ret.set
    /\ ~call.chat.ok
    /\ call.description = "click a"
    /\ ret.text = "click a"
\* C19 as stated: for every provider GetLLMPresets lists with a default
\* endpoint, a client built from a config with a blank endpoint uses that
\* default, and a non-blank endpoint is kept as given.
C19_Original ==
    (call.fn = "NewClient" /\ ret.set /\ PresetEndpoint(call.config.provider) # "") =>
        ret.client.endpoint = IF call.config.endpoint = ""
                              THEN PresetEndpoint(call.config.provider)
                              ELSE call.config.endpoint

HeaderNames(request) == {h.name : h \in request.headers}

\* C20: the provider tag alone selects the client shape.  For anthropic, Chat
\* posts to <endpoint>/messages with x-api-key and anthropic-version headers
\* and no Authorization header; for every other tag it posts to
\* <endpoint>/chat/completions, with "Authorization: Bearer <key>" exactly
\* when an API key is set.  NewClient returns no error.
C20_ClientShape ==
    (call.fn = "NewClient" /\ ret.set) =>
        /\ ret.err = NoErr
        /\ IF call.config.provider = "anthropic"
           THEN /\ ret.request.url = ret.client.endpoint \o "/messages"
                /\ [name |-> "x-api-key", value |-> call.config.apiKey] \in ret.request.headers
                /\ "anthropic-version" \in HeaderNames(ret.request)
                /\ "Authorization" \notin HeaderNames(ret.request)
           ELSE /\ ret.request.url = ret.client.endpoint \o "/chat/completions"
                /\ "x-api-key" \notin HeaderNames(ret.request)
                /\ "Authorization" \in HeaderNames(ret.request) <=> call.config.apiKey # ""
                /\ call.config.apiKey # "" =>
                     [name |-> "Authorization", value |-> "Bearer " \o call.config.apiKey]
                        \in ret.request.headers

\* An anthropic client with a key and the default endpoint.
C20_Witness ==
    /\ call.fn = "NewClient"
    /\ ret.set
    /\ call.config.provider = "anthropic"
    /\ call.config.endpoint = ""
    /\ call.config.apiKey = "sk-1"
    /\ ret.request.url = "https://api.anthropic.com/v1/messages"
C22_StoreNotFound ==
    [][ LET i == call'.id IN
        /\ (call'.fn \in {"Get", "Update", "UpdateStatus"} /\ tasks[i].state # "present")
              => (ret'.err = ErrNotFound /\ tasks' = tasks)
        /\ (call'.fn = "Get" /\ tasks[i].state = "present")
              => (ret'.err = NoErr /\ ret'.task = tasks[i] /\ tasks' = tasks)
        /\ call'.fn = "Create"
              => (tasks'[i].state = "present" /\ ret'.err = NoErr)
        /\ \A j \in Tasks :
              (tasks[j].state = "present" /\ tasks'[j].state # "present")
                  => (call'.fn = "Delete" /\ i = j) ]_<<tasks, call, ret>>

\* A task that was created and then deleted has just been looked up in vain
\* while another task is still stored.
C22_Witness ==
    /\ call.fn = "Get"
    /\ ret.set
    /\ ret.err = ErrNotFound
    /\ tasks[call.id].state = "deleted"
    /\ \E j \in Tasks : tasks[j].state = "present" /\ tasks[j].status = TaskStatusCancelled
\* C23: the snapshot handed to RefineStep for a failed step was taken after
\* the failed execution attempt of that step, that is, during the step's own
\* iteration and not before it.
C23_Original ==
    \A i \in 1..Len(hist) :
        hist[i].refines > 0 => hist[i].refineSnap >= i

\* C24: every plan step that has finished, whatever its outcome, was followed
\* by one TakeSnapshot call before the next step started, so a refinement of
\* step i+1 is handed the snapshot taken at the end of step i.
C24_Original ==
    \A i \in 1..Len(hist) :
        /\ i < idx => hist[i].snaps = 1
        /\ (i > 1 /\ hist[i].refines > 0) => hist[i].refineSnap = i - 1
BrowserActions == {"navigate", "click", "fill", "hover", "select", "wait_for_selector"}

\* C25: for an action kind outside navigate, click, fill, hover, select and
\* wait (screenshot, scroll, the empty string, any other string) executeStep
\* calls none of Navigate, Click, Fill, Hover, Select, WaitForSelector and
\* returns a successful StepResult and a nil error, whatever the driver
\* would have answered.
C25_UndispatchedAction ==
    (call.fn = "executeStep" /\ ret.set
        /\ call.step.action \notin {"navigate", "click", "fill", "hover", "select", "wait"}) =>
        /\ \A k \in 1..Len(trace) : trace[k].op \notin BrowserActions
        /\ ret.result = [success |-> TRUE, error |-> NoErr]
        /\ ret.err = NoErr

\* A scroll step with a target ran against a driver whose operations fail.
C25_Witness ==
    /\ call.fn = "executeStep"
    /\ ret.set
    /\ call.step.action = "scroll"
    /\ call.step.target = "a"
    /\ ~call.drvOk
    /\ ret.result.success
    /\ ret.err = NoErr

\* C26: for navigate, click, fill, hover and select executeStep calls the
\* driver operation of that name exactly once and no other, with the step's
\* target (and the step's value for fill and select); the result is
\* successful exactly when the operation returned no error; on an error the
\* result is unsuccessful with the driver's error text, there is no
\* screenshot, and that error is returned.
C26_DriverDispatch ==
    (call.fn = "executeStep" /\ ret.set
        /\ call.step.action \in {"navigate", "click", "fill", "hover", "select"}) =>
        LET st == call.step
            expected == IF st.action \in {"fill", "select"}
                        THEN [op |-> st.action, arg |-> st.target, value |-> st.value]
                        ELSE [op |-> st.action, arg |-> st.target]
        IN  /\ SelectSeq(trace, LAMBDA c : c.op \in BrowserActions) = <<expected>>
            /\ ret.result.success <=> call.drvOk
            /\ call.drvOk => (ret.err = NoErr /\ ret.result.error = NoErr)
            /\ ~call.drvOk =>
                  /\ ret.result = [success |-> FALSE, error |-> DriverError(st)]
                  /\ ret.screenshot = <<>>
                  /\ ret.err = DriverError(st)
                  /\ Len(trace) = 1

\* A fill step that asked for a screenshot failed in the driver.
C26_Witness ==
    /\ call.fn = "executeStep"
    /\ ret.set
    /\ call.step.action = "fill"
    /\ call.step.value = "v"
    /\ call.step.screenshot
    /\ ~call.drvOk
    /\ ret.err # NoErr
    /\ trace = <<[op |-> "fill", arg |-> call.step.target, value |-> "v"]>>

\* C27: executeStep calls TakeScreenshot (once) exactly when the action did
\* not fail and the step's screenshot flag is set; a screenshot record is
\* returned exactly when that call succeeded, and it carries the step's order
\* number; when the call fails there is no record and the step still
\* succeeds with a nil error.
C27_Screenshot ==
    (call.fn = "executeStep" /\ ret.set) =>
        LET st == call.step
            shots == CallsOf(trace, "take_screenshot")
            acted == DriverOp(st) = "none" \/ call.drvOk
        IN  /\ Len(shots) = (IF acted /\ st.screenshot THEN 1 ELSE 0)
            /\ ret.screenshot = (IF Len(shots) = 1 /\ call.shotOk
                                 THEN <<[stepOrder |-> st.order]>> ELSE <<>>)
            /\ (Len(shots) = 1 /\ ~call.shotOk) =>
                  (ret.result = [success |-> TRUE, error |-> NoErr] /\ ret.err = NoErr)

\* A click step numbered 2 succeeded while its screenshot could not be taken.
C27_Witness ==
    /\ call.fn = "executeStep"
    /\ ret.set
    /\ call.step.action = "click"
    /\ call.step.order = 2
    /\ call.step.screenshot
    /\ call.drvOk
    /\ ~call.shotOk
    /\ Len(CallsOf(trace, "take_screenshot")) = 1
    /\ ret.screenshot = <<>>
    /\ ret.result.success
\* C28: once ParseTask has returned, no step of the loop, refinement
\* included, changes the plan: its steps stay the ones ParseTask returned up
\* to and including the hand-over to the document generator.
C28_PlanUnchanged ==
    [][ /\ pc # "parse_task" => plan' = plan
        /\ plan' \in Plans(MaxSteps) ]_vars

\* The second step of a plan was refined into a different step, the refined
\* step has run, and the plan still holds the step ParseTask returned.
C28_Witness ==
    /\ pc = "snap"
    /\ idx = 2
    /\ hist[2].refine = "ok"
    /\ hist[2].execs = 2
    /\ refined.target = "b"
    /\ plan[2].target = "a"
\* C29: the cookie variant with an empty cookie set returns an error and
\* makes no driver call; with a non-empty set it makes exactly one driver
\* call, SetCookies with the configured cookies, and returns a session whose
\* cookies are the configured ones when that call succeeds, an error and no
\* session when it fails.
C29_CookieAuth ==
    (call.fn = "Authenticate" /\ ret.set /\ call.config.type = "cookie") =>
        LET cfg == call.config.cookies IN
        IF cfg = <<>>
        THEN /\ ret.err # NoErr
             /\ ~ret.session.set
             /\ trace = <<>>
        ELSE /\ trace = <<[op |-> "SetCookies", cookies |-> cfg]>>
             /\ IF "SetCookies" \in call.driver.failing
                THEN ret.err # NoErr /\ ~ret.session.set
                ELSE ret.err = NoErr /\ ret.session.set /\ ret.session.cookies = cfg

\* Two cookies were configured and injected while the browser itself held a
\* different cookie, and the session carries the two.
C29_Witness ==
    /\ call.fn = "Authenticate"
    /\ ret.set
    /\ call.config.type = "cookie"
    /\ call.config.cookies = <<"c", "d">>
    /\ call.driver.cookies = <<"c">>
    /\ ret.session.set
    /\ ret.session.cookies = <<"c", "d">>
    /\ Len(trace) = 1
\* The driver calls of the last poll recorded in a trace.
LastPoll(calls) ==
    LET k == CHOOSE i \in 1..Len(calls) :
                 /\ calls[i].op = "GetCurrentURL"
                 /\ \A j \in (i + 1)..Len(calls) : calls[j].op # "GetCurrentURL"
    IN  SubSeq(calls, k, Len(calls))

\* What holds of every return of the manual wait, whichever outcomes are allowed.
ManualReturn(errors) ==
    ret.set =>
        /\ \/ /\ ret.session.set
              /\ ret.err = NoErr
              /\ trace # <<>>
              /\ ~isOnLoginPage(LastPoll(trace)[1].url)
              /\ Len(LastPoll(trace)) = 2
              /\ ret.at >= 1
           \/ /\ ~ret.session.set
              /\ ret.err \in errors
        /\ ret.err = "manual login timeout" => ret.at >= ManualCeiling
        /\ ret.err = "context canceled" => manual.cancelled

\* C30 as stated: the manual wait always returns, with a session harvested
\* at a poll whose URL is off the login page, with the timeout error once the
\* ceiling is reached, or with the cancellation error once the context is
\* cancelled, and with nothing else; it makes no driver call after it
\* returned and returns no session before the first poll interval elapsed.
C30_Original ==
    /\ <>(ret.set)
    /\ [](ManualReturn({"manual login timeout", "context canceled"}))
    /\ [][ret.set => (trace' = trace /\ ret' = ret)]_<<ret, trace>>

\* C30 amended: as stated, with a fourth outcome: the error of a GetCookies
\* call that failed at a poll whose URL is off the login page.
C30_ManualOutcomes ==
    /\ <>(ret.set)
    /\ [](ManualReturn({"manual login timeout", "context canceled", "get cookies"}))
    /\ []((ret.set /\ ret.err = "get cookies") =>
             (~isOnLoginPage(LastPoll(trace)[1].url) /\ Len(LastPoll(trace)) = 2))
    /\ [][ret.set => (trace' = trace /\ ret' = ret)]_<<ret, trace>>

\* The page stayed on the login page for two polls, the third found it left,
\* the cookies were harvested, and time went on without another poll.
C30_Witness ==
    /\ call.fn = "authenticateManually"
    /\ ret.set
    /\ ret.session.set
    /\ ret.session.cookies = <<"c">>
    /\ Len(trace) = 4
    /\ trace[1].url = "/login"
    /\ manual.now > ret.at
    /\ manual.tick
\* C31: the manual wait returns a session only from a poll at which
\* GetCurrentURL reported, without error, a URL off the login page; a poll
\* whose GetCurrentURL erred is not taken for a completed login.
C31_Original ==
    (call.fn = "authenticateManually" /\ ret.set /\ ret.session.set) =>
        /\ LastPoll(trace)[1].ok
        /\ ~isOnLoginPage(LastPoll(trace)[1].url)
\* C32: the OpenAI-compatible Chat returns an error naming the status and
\* the body, and no Response, for every answer whose status is not 2xx; it
\* returns a Response for a 2xx answer only if the body decodes and holds at
\* least one choice, and then the Response's content and finish_reason are
\* those of the first choice; a 2xx answer without choices yields an error
\* and no Response.
C32_ChatResponse ==
    (call.fn = "Chat" /\ ret.set /\ call.sent) =>
        LET ok2xx == call.st.code \in 200..299 IN
        /\ ret.response.set <=> ret.err = NoErr
        /\ ~ok2xx =>
              /\ ~ret.response.set
              /\ ret.err = "API error: " \o call.st.status \o " - " \o call.body.text
        /\ (ok2xx /\ ret.response.set) =>
              /\ call.body.decodes
              /\ Len(call.body.choices) >= 1
              /\ ret.response.content = call.body.choices[1].content
              /\ ret.response.finishReason = call.body.choices[1].finishReason
        /\ (ok2xx /\ Len(call.body.choices) = 0) =>
              (~ret.response.set /\ ret.err # NoErr)

\* A 200 answer with two choices was turned into a Response.
C32_Witness ==
    /\ call.fn = "Chat"
    /\ ret.set
    /\ call.sent
    /\ call.st.code = 200
    /\ Len(call.body.choices) = 2
    /\ ret.response.set
    /\ call.body.choices[2].content = "first"
    /\ ret.response.content = "second"
    /\ ret.response.finishReason = "length"
\* text[s..e] is a balanced brace-delimited object: it opens at s and the
\* brace at e is the one that closes it.
Balanced(text, s, e) ==
    /\ s < e
    /\ text[s] = "{"
    /\ text[e] = "}"
    /\ \A i \in s..(e - 1) : Depth(text, i) - Depth(text, s - 1) > 0
    /\ Depth(text, e) = Depth(text, s - 1)

\* C33: for a reply that is not valid JSON as a whole, the text the parse is
\* retried on is the first balanced brace-delimited object of the reply
\* whenever the reply holds one, also after a stray closing brace; when it
\* holds none, the whole reply is retried and the call fails with a parse
\* error.
C33_Original ==
    (call.fn = "ParseTask" /\ ret.set) =>
        LET content == call.before \o call.object \o call.after
            objects == {p \in (1..Len(content)) \X (1..Len(content)) :
                            Balanced(content, p[1], p[2])}
        IN  ~Unmarshal(content).ok =>
                IF objects # {}
                THEN \E p \in objects :
                        /\ \A q \in objects : p[1] <= q[1]
                        /\ ret.retried = SubSeq(content, p[1], p[2])
                ELSE ret.retried = content /\ ret.err # NoErr
\* Plan steps whose first execution attempt failed, and RefineStep calls
\* that got as far as their Chat call.
FailedFirst == {k \in 1..Len(hist) : ~hist[k].first.success}
RefineChats == {k \in 1..Len(hist) : hist[k].refine \in {"ok", "err"}}

\* C34: once ExecuteTask is over, ParseTask was called once, or not at all
\* after an earlier fatal error, every ParseTask and RefineStep call made one
\* Chat call, and so the Chat calls made for the task number 1 plus the plan
\* steps whose first execution attempt failed.
C34_Original ==
    pc \in Terminal =>
        \/ /\ chatCalls = 0
           /\ hist = <<>>
           /\ retErr \notin {NoErr, "parse task"}
        \/ /\ chatCalls - Cardinality(RefineChats) = 1
           /\ chatCalls = 1 + Cardinality(FailedFirst)
\* C35: with every collaborator call returning, ExecuteTask never crashes,
\* and when it is over it has returned and the task is completed or failed,
\* not left running; so also when a TakeSnapshot after a step failed and a
\* later step fails.
C35_Original ==
    /\ pc # "panicked"
    /\ pc \in Terminal =>
          /\ pc = "returned"
          /\ status \in {TaskStatusCompleted, TaskStatusFailed}
\* C36: when ExecuteTask has returned, its return value is nil exactly when
\* the task is completed, with its result and completed_at set, and a
\* non-nil return value leaves the task failed with that error's text as its
\* error_message, also when an Update of the store failed at the start or at
\* the end of the execution.
C36_Original ==
    pc = "returned" =>
        /\ retErr = NoErr <=> status = TaskStatusCompleted
        /\ status = TaskStatusCompleted => result.set
        /\ retErr # NoErr => (status = TaskStatusFailed /\ errorMessage = retErr)
\* C37: a client that reads the task while it is being executed never gets
\* status completed with the result (and completed_at) missing.
C37_Original ==
    (call.fn = "GetTask" /\ ret.set /\ ret.status = TaskStatusCompleted) => ret.hasResult
\* The screenshots the claim expects: one for each plan step during whose
\* iteration a screenshot was taken, in plan order, numbered as that step.
ExpectedScreenshots ==
    LET ks == SelectSeq([k \in 1..Len(hist) |-> k], LAMBDA k : hist[k].shots > 0)
    IN  [i \in 1..Len(ks) |-> [stepOrder |-> plan[ks[i]].order]]

\* C38: the result of a completed task holds at most one screenshot per plan
\* step, in plan order, each carrying the order number of the plan step
\* during whose iteration it was taken, the iterations that ran a refined
\* step included.
C38_Original ==
    result.set =>
        /\ \A k \in 1..Len(hist) : hist[k].shots <= 1
        /\ result.screenshots = ExpectedScreenshots
\* C39: every status change ExecuteTask makes (to running, to failed, to
\* completed) comes with exactly one Update call of the store, handed the
\* task with its new status, before ExecuteTask does anything else, and
\* ExecuteTask makes no other Update call; when the Update that persists
\* running fails, ExecuteTask returns at once, with no browser connection
\* and no language-model call made.
C39_UpdatePerStatusChange ==
    [][ /\ (pc # "idle" /\ status' # status) =>
              /\ updateCalls' = updateCalls + 1
              /\ persisted' = IF UpdateOk
                              THEN [status |-> status', errorMessage |-> errorMessage',
                                    hasResult |-> result'.set]
                              ELSE persisted
        /\ updateCalls' # updateCalls => (pc # "idle" /\ status' # status)
        /\ (pc = "start" /\ ~UpdateOk) =>
              /\ pc' = "returned"
              /\ retErr' = "update task status"
              /\ connectCalls' = 0
              /\ chatCalls' = 0
              /\ drv' = Released ]_vars

\* The task left the store while it ran: the Update of running succeeded,
\* the one of completed was made and failed.
C39_Witness ==
    /\ pc = "returned"
    /\ retErr = "update task result"
    /\ status = TaskStatusCompleted
    /\ persisted.status = TaskStatusRunning
    /\ updateCalls = 2
====
